---- MODULE Spec2Model ----
(***************************************************************************)
(* Nested-axle 3D camera (NA3DCamera.js), its vector kernel (Vector3),     *)
(* the two-angle direction (Direction2) and the scalar helpers (utils).    *)
(*                                                                         *)
(* Numbers.  The program computes on IEEE doubles.  Here every number is   *)
(* a fixed-point integer counting 1e-4: a length 1.0 is One, an angle of   *)
(* 1 rad is One, pi is Pi.  Products and quotients are rounded to the      *)
(* nearest unit, so a value carries a rounding error of a few units and    *)
(* "within tolerance" in a property means within Tol units.  The shared    *)
(* epsilon of the program, 1e-8, lies strictly between 0 and one unit, so  *)
(* on this grid |x| <= epsilon and |x| < epsilon both read |x| <= 0.       *)
(***************************************************************************)
EXTENDS Integers, Sequences, FiniteSets, TLC

One == 10000
HalfPi == 15708
Pi == 2 * HalfPi

\* utils.js: epsilon = 1e-8, which is 0 whole units of 1e-4
epsilon == 0

Abs(x) == IF x < 0 THEN -x ELSE x

\* a / b rounded to the nearest integer, halves away from zero (b > 0)
RDiv(a, b) == IF a >= 0 THEN (a + b \div 2) \div b
                        ELSE -((-a + b \div 2) \div b)

\* fixed-point product and quotient of two numbers
Mul(a, b) == RDiv(a * b, One)
Quot(a, b) == IF b > 0 THEN RDiv(a * One, b) ELSE -RDiv(a * One, -b)

\* Math.sqrt of a sum of squares of fixed-point numbers: the result is in units
RECURSIVE SqrtSearch(_, _, _)
SqrtSearch(n, lo, hi) ==
    IF hi - lo <= 1
    THEN IF n - lo * lo <= hi * hi - n THEN lo ELSE hi
    ELSE LET mid == (lo + hi) \div 2
         IN IF mid * mid <= n THEN SqrtSearch(n, mid, hi)
                              ELSE SqrtSearch(n, lo, mid)
Sqrt(n) == SqrtSearch(n, 0, 46340)

\* Taylor polynomials on [-pi/4, pi/4]
SinSeries(r) ==
    LET r2 == Mul(r, r)
        t3 == RDiv(r * r2, 6 * One)
        t5 == RDiv(t3 * r2, 20 * One)
        t7 == RDiv(t5 * r2, 42 * One)
    IN r - t3 + t5 - t7
CosSeries(r) ==
    LET r2 == Mul(r, r)
        t2 == RDiv(r * r, 2 * One)
        t4 == RDiv(t2 * r2, 12 * One)
        t6 == RDiv(t4 * r2, 30 * One)
    IN One - t2 + t4 - t6

\* Math.sin / Math.cos: reduce to the nearest quarter turn, then the series
Quadrant(x) == RDiv(x, HalfPi)
Sin(x) ==
    LET q == Quadrant(x)
        r == x - q * HalfPi
        k == q % 4
    IN CASE k = 0 -> SinSeries(r)
         [] k = 1 -> CosSeries(r)
         [] k = 2 -> -SinSeries(r)
         [] k = 3 -> -CosSeries(r)
Cos(x) ==
    LET q == Quadrant(x)
        r == x - q * HalfPi
        k == q % 4
    IN CASE k = 0 -> CosSeries(r)
         [] k = 1 -> -SinSeries(r)
         [] k = 2 -> -CosSeries(r)
         [] k = 3 -> SinSeries(r)

\* Math.acos on [0, 1]: the least angle of [0, pi/2] whose cosine is <= d
RECURSIVE AcosSearch(_, _, _)
AcosSearch(d, lo, hi) ==
    IF hi - lo <= 1 THEN hi
    ELSE LET mid == (lo + hi) \div 2
         IN IF Cos(mid) <= d THEN AcosSearch(d, lo, mid)
                             ELSE AcosSearch(d, mid, hi)
\* Math.acos: a dot product of two unit vectors that rounding carried a unit
\* past +-1 is read as +-1
Acos(d) ==
    LET c == IF d > One THEN One ELSE IF d < -One THEN -One ELSE d
    IN IF c = One THEN 0
       ELSE IF c >= 0 THEN AcosSearch(c, 0, HalfPi)
       ELSE Pi - (IF c = -One THEN 0 ELSE AcosSearch(-c, 0, HalfPi))

(***************************************************************************)
(* Vector3 (geometry.js).  A vector is a triple <<x, y, z>>; the methods   *)
(* that mutate their receiver return the receiver's new value.             *)
(***************************************************************************)
Vector3(x, y, z) == <<x, y, z>>
UP == Vector3(0, 0, One)
RIGHT == Vector3(One, 0, 0)

cross(a, b) == Vector3(Mul(a[2], b[3]) - Mul(a[3], b[2]),
                       Mul(a[3], b[1]) - Mul(a[1], b[3]),
                       Mul(a[1], b[2]) - Mul(a[2], b[1]))
dot(a, b) == RDiv(a[1] * b[1] + a[2] * b[2] + a[3] * b[3], One)
\* lerp with its end points exchanged
lerp_Exchanged(from, to, t) == Mul(from - to, t) + to
lerp(from, to, t) == Mul(to - from, t) + from
clamp(low, x, high) == IF x <= low THEN low ELSE IF x >= high THEN high ELSE x
isZero(x) == Abs(x) <= epsilon
Vector3lerp(from, to, t) == Vector3(lerp(from[1], to[1], t),
                                    lerp(from[2], to[2], t),
                                    lerp(from[3], to[3], t))
angleBetween(a, b) == Acos(dot(a, b))
signedAngleBetween(from, to, rotationAxis) ==
    LET ang == angleBetween(from, to)
    IN IF dot(cross(from, to), rotationAxis) < 0 THEN -ang ELSE ang
times(v, a) == Vector3(Mul(a, v[1]), Mul(a, v[2]), Mul(a, v[3]))
increasedBy(v, w) == Vector3(v[1] + w[1], v[2] + w[2], v[3] + w[3])
difference(from, to) == increasedBy(to, times(from, -One))
vecIsZero(v) == isZero(v[1]) /\ isZero(v[2]) /\ isZero(v[3])
norm(v) == Sqrt(v[1] * v[1] + v[2] * v[2] + v[3] * v[3])
normalize(v) ==
    IF vecIsZero(v) THEN v
    ELSE LET norm_ == norm(v)
         IN Vector3(Quot(v[1], norm_), Quot(v[2], norm_), Quot(v[3], norm_))
rotateAboutOrthogonal(this, other, radians) ==
    IF vecIsZero(this) THEN this
    ELSE LET z == cross(other, this)
         IN increasedBy(times(this, Cos(radians)), times(z, Sin(radians)))
rotateAbout(this, other, radians) ==
    LET a == this
        b == other
        aParallel == times(b, Quot(dot(a, b), dot(b, b)))
        aOrth == increasedBy(a, times(aParallel, -One))
        w == cross(b, aOrth)
        aOrthNorm == norm(aOrth)
        x1 == Quot(Cos(radians), aOrthNorm)
        x2 == Quot(Sin(radians), norm(w))
        aOrthRotated == times(increasedBy(times(aOrth, x1), times(w, x2)), aOrthNorm)
    IN IF aOrthNorm <= epsilon THEN this
       ELSE increasedBy(aOrthRotated, aParallel)

(***************************************************************************)
(* Direction2 (geometry.js): a direction as the pair [h, v].               *)
(***************************************************************************)
Direction2(h, v) == [h |-> h, v |-> v]
fromVector3(u, vertical, horizontal) ==
    LET v == HalfPi - angleBetween(u, vertical)
        right == cross(u, vertical)
        hDirection == rotateAboutOrthogonal(u, right, -v)
        h == signedAngleBetween(horizontal, hDirection, vertical)
    IN Direction2(h, v)
toVector3(d, vertical, horizontal) ==
    LET result == rotateAboutOrthogonal(horizontal, vertical, d.h)
        right == cross(result, vertical)
    IN rotateAboutOrthogonal(result, right, d.v)

(***************************************************************************)
(* Planes, rays and rectangles (geometry.js).  A rectangle is the triple   *)
(* of three of its corners, a plane the record of its normal n and offset  *)
(* d, a ray the record of its origin P and direction v.  A function that   *)
(* returns a vector or null / false returns here a triple or one of the    *)
(* two values below, which are no triples.                                 *)
(***************************************************************************)
null == <<>>
false == <<0>>
Min(a, b, c) == IF a <= b /\ a <= c THEN a ELSE IF b <= c THEN b ELSE c
Max(a, b, c) == IF a >= b /\ a >= c THEN a ELSE IF b >= c THEN b ELSE c

rectToPlane(rect) ==
    LET A == rect[1]
        B == rect[2]
        C == rect[3]
        n == cross(difference(A, B), difference(A, C))
        d == -dot(n, A)
    IN [n |-> n, d |-> d]

\* the intersection taken behind the origin of the ray as well
rayPlaneIntersection_Behind(ray, plane) ==
    LET den == dot(plane.n, ray.v)
    IN IF isZero(den) THEN null
       ELSE increasedBy(ray.P, times(ray.v, Quot(-(dot(plane.n, ray.P) + plane.d), den)))
rayPlaneIntersection(ray, plane) ==
    LET den == dot(plane.n, ray.v)
    IN IF isZero(den) THEN null
       ELSE LET t_ == Quot(-(dot(plane.n, ray.P) + plane.d), den)
            IN IF t_ < 0 THEN null
               ELSE increasedBy(ray.P, times(ray.v, t_))

\* threshold = 0.1 is 1000 units
rayIntersectsRect(ray, rect) ==
    LET threshold == One \div 10
        Q == rayPlaneIntersection(ray, rectToPlane(rect))
        A == rect[1]
        B == rect[2]
        C == rect[3]
    IN IF Q = null THEN false
       ELSE IF \E axis \in 1..3 :
                  \/ Q[axis] < Min(A[axis], B[axis], C[axis]) - threshold
                  \/ Q[axis] > Max(A[axis], B[axis], C[axis]) + threshold
            THEN false
            ELSE Q

(***************************************************************************)
(* NA3DCamera.  A camera value c is the record of the private fields; a    *)
(* method is an operator from the camera (and its arguments) to the camera *)
(* it leaves behind.                                                       *)
(***************************************************************************)
\* the hand changed on the first axis instead of the second
changeHand_FirstAxis(v) == Vector3(-v[1], v[2], v[3])
changeHand(v) == Vector3(v[1], -v[2], v[3])
changeAngleHand(a) == -a

updateRight(c) == [c EXCEPT !.right = normalize(cross(c.look, c.pedestal))]
updateUp(c) == [c EXCEPT !.up = cross(c.right, c.look)]

constructor(position, pedestal, look, xAng, maxAbsUpAng) ==
    LET c0 == [position |-> changeHand(position),
               pedestal |-> normalize(changeHand(pedestal)),
               look |-> normalize(changeHand(look)),
               right |-> Vector3(0, 0, 0),
               up |-> Vector3(0, 0, 0),
               t |-> One,
               s |-> One]
        c1 == updateUp(updateRight(c0))
        yAng == HalfPi - angleBetween(c1.pedestal, c1.look)
        xAng_ == changeAngleHand(xAng)
        horizontal0 == rotateAboutOrthogonal(c1.look, c1.right, -yAng)
        horizontal == rotateAboutOrthogonal(horizontal0, c1.pedestal, -xAng_)
    IN [position |-> c1.position,
        pedestal |-> c1.pedestal,
        horizontal |-> horizontal,
        look |-> c1.look,
        right |-> c1.right,
        up |-> c1.up,
        t |-> c1.t,
        s |-> c1.s,
        xAng |-> xAng_,
        yAng |-> yAng,
        targetXang |-> xAng_,
        targetYang |-> yAng,
        rInclinAng |-> 0,
        fInclinAng |-> 0,
        targetRInclinAng |-> 0,
        targetFInclinAng |-> 0,
        targetPosition |-> c1.position,
        maxUpAng |-> maxAbsUpAng,
        minUpAng |-> -maxAbsUpAng]

\* setSmoothness: min = 0.001 and max = 0.999 are 10 and 9990 units
setSmoothness(c, look, position) ==
    LET min == One \div 1000
        max == One - One \div 1000
    IN [c EXCEPT !.t = One - clamp(min, look, max),
                 !.s = One - clamp(min, position, max)]

updateAngles(c) ==
    LET direction == fromVector3(c.look, c.pedestal, c.horizontal)
    IN [c EXCEPT !.xAng = direction.h,
                 !.yAng = direction.v,
                 !.targetXang = direction.h,
                 !.targetYang = direction.v]

\* setLook taking the new look, levelled, as the horizontal reference
setLook_Recomputed(c, look) ==
    LET c1 == updateUp(updateRight([c EXCEPT !.look = normalize(changeHand(look))]))
        v == HalfPi - angleBetween(c1.look, c1.pedestal)
    IN updateAngles([c1 EXCEPT !.horizontal = rotateAboutOrthogonal(c1.look, c1.right, -v)])
setLook(c, look) ==
    updateUp(updateRight(updateAngles([c EXCEPT !.look = normalize(changeHand(look))])))

setLookSmooth(c, look) ==
    LET look_ == normalize(changeHand(look))
        direction == fromVector3(look_, c.pedestal, c.horizontal)
    IN [c EXCEPT !.targetXang = direction.h, !.targetYang = direction.v]

lookAt(c, target) == setLook(c, difference(changeHand(c.position), target))
lookAtSmooth(c, target) == setLookSmooth(c, difference(changeHand(c.position), target))

rotateLeft(c, radians) == [c EXCEPT !.targetXang = @ + radians]

actuallyRotateLeft(c, radians) ==
    IF isZero(radians) THEN c
    ELSE LET c1 == [c EXCEPT !.look = rotateAbout(c.look, c.pedestal, radians)]
             c2 == updateUp(updateRight(c1))
         IN [c2 EXCEPT !.xAng = @ + radians]

rotateUp(c, radians) ==
    [c EXCEPT !.targetYang = clamp(c.minUpAng, c.targetYang + radians, c.maxUpAng)]

\* the rotation applied in full, whatever the bounds
actuallyRotateUp_Unclamped(c, radians) ==
    IF isZero(radians) THEN c
    ELSE updateUp([c EXCEPT
                  !.look = rotateAboutOrthogonal(c.look, c.right, radians),
                  !.yAng = @ + radians])
actuallyRotateUp(c, radians) ==
    IF isZero(radians) THEN c
    ELSE IF c.yAng + radians > c.maxUpAng
         THEN updateUp([c EXCEPT
                  !.look = rotateAboutOrthogonal(c.look, c.right, c.maxUpAng - c.yAng),
                  !.yAng = c.maxUpAng])
    ELSE IF c.yAng + radians < c.minUpAng
         THEN updateUp([c EXCEPT
                  !.look = rotateAboutOrthogonal(c.look, c.right, c.minUpAng - c.yAng),
                  !.yAng = c.minUpAng])
    ELSE updateUp([c EXCEPT
                  !.look = rotateAboutOrthogonal(c.look, c.right, radians),
                  !.yAng = @ + radians])

inclineRight(c, radians) == [c EXCEPT !.targetRInclinAng = @ + radians]
actuallyInclineRight(c, radians) ==
    IF Abs(radians) <= epsilon THEN c
    ELSE LET axis == cross(c.pedestal, c.right)
             c1 == [c EXCEPT !.pedestal = rotateAboutOrthogonal(c.pedestal, axis, radians),
                             !.look = rotateAbout(c.look, axis, radians)]
             c2 == updateUp(updateRight(c1))
         IN [c2 EXCEPT !.rInclinAng = @ + radians]

inclineForward(c, radians) == [c EXCEPT !.targetFInclinAng = @ + radians]
actuallyInclineForward(c, radians) ==
    IF Abs(radians) <= epsilon THEN c
    ELSE LET c1 == [c EXCEPT !.pedestal = rotateAbout(c.pedestal, c.right, radians),
                             !.look = rotateAboutOrthogonal(c.look, c.right, radians)]
             c2 == updateUp(c1)
         IN [c2 EXCEPT !.fInclinAng = @ + radians]

setXangle(c, radians) == actuallyRotateLeft(c, radians - c.xAng)
setYangle(c, radians) == actuallyRotateUp(c, radians - c.yAng)
setRInclinAng(c, radians) == actuallyInclineRight(c, radians - c.rInclinAng)
setFInclinAng(c, radians) == actuallyInclineForward(c, radians - c.fInclinAng)

setPosition(c, position) ==
    [c EXCEPT !.position = changeHand(position), !.targetPosition = changeHand(position)]
\* the smoothed setter moving the camera at once, as setPosition does
setPositionSmooth_Immediate(c, position) ==
    [c EXCEPT !.position = changeHand(position), !.targetPosition = changeHand(position)]
\* the new target added to the pending one, as rotateLeft adds angles
setPositionSmooth_Accumulated(c, position) ==
    [c EXCEPT !.targetPosition = increasedBy(@, changeHand(position))]
setPositionSmooth(c, position) == [c EXCEPT !.targetPosition = changeHand(position)]
moveRight(c, amount) == [c EXCEPT !.position = increasedBy(@, times(c.right, amount))]
moveForward(c, amount) == [c EXCEPT !.position = increasedBy(@, times(c.look, amount))]
moveUp(c, amount) == [c EXCEPT !.position = increasedBy(@, times(c.up, amount))]

\* update(): its five statements in order, each on the camera the one before left
updateXangle(c) == setXangle(c, lerp(c.xAng, c.targetXang, c.t))
updateYangle(c) == setYangle(c, lerp(c.yAng, c.targetYang, c.t))
updateRInclinAng(c) == setRInclinAng(c, lerp(c.rInclinAng, c.targetRInclinAng, c.t))
updateFInclinAng(c) == setFInclinAng(c, lerp(c.fInclinAng, c.targetFInclinAng, c.t))
updatePosition(c) ==
    [c EXCEPT !.position = Vector3lerp(c.position, c.targetPosition, c.s)]
update(c) ==
    updatePosition(updateFInclinAng(updateRInclinAng(updateYangle(updateXangle(c)))))

\* the getters aimed at the host
construct3Position(c) == changeHand(c.position)
construct3Forward(c) == changeHand(c.look)
construct3Up(c) == c.up
construct3Right(c) == changeHand(c.right)
xAngle(c) == changeAngleHand(c.xAng)

(***************************************************************************)
(* The camera as a state machine: one variable per private field.          *)
(*   history  the public calls made so far, <<name, arguments>> each, the  *)
(*            constructor's first                                          *)
(*   before   the camera as the last call found it                         *)
(*   d2       a Direction2 conversion in progress (SpecDirection)          *)
(*   cast     a ray cast at a rectangle (SpecRay)                          *)
(***************************************************************************)
VARIABLES position, pedestal, horizontal, look, right, up, t, s,
          xAng, yAng, targetXang, targetYang,
          rInclinAng, fInclinAng, targetRInclinAng, targetFInclinAng,
          targetPosition, maxUpAng, minUpAng,
          history, before, d2, cast

fields == <<position, pedestal, horizontal, look, right, up, t, s,
            xAng, yAng, targetXang, targetYang,
            rInclinAng, fInclinAng, targetRInclinAng, targetFInclinAng,
            targetPosition, maxUpAng, minUpAng>>
vars == <<fields, history, before, d2, cast>>

Cam == [position |-> position, pedestal |-> pedestal, horizontal |-> horizontal,
        look |-> look, right |-> right, up |-> up, t |-> t, s |-> s,
        xAng |-> xAng, yAng |-> yAng,
        targetXang |-> targetXang, targetYang |-> targetYang,
        rInclinAng |-> rInclinAng, fInclinAng |-> fInclinAng,
        targetRInclinAng |-> targetRInclinAng, targetFInclinAng |-> targetFInclinAng,
        targetPosition |-> targetPosition, maxUpAng |-> maxUpAng, minUpAng |-> minUpAng]

\* the fields of the first state are those of the camera c
Starts(c) ==
    /\ position = c.position /\ pedestal = c.pedestal /\ horizontal = c.horizontal
    /\ look = c.look /\ right = c.right /\ up = c.up /\ t = c.t /\ s = c.s
    /\ xAng = c.xAng /\ yAng = c.yAng
    /\ targetXang = c.targetXang /\ targetYang = c.targetYang
    /\ rInclinAng = c.rInclinAng /\ fInclinAng = c.fInclinAng
    /\ targetRInclinAng = c.targetRInclinAng /\ targetFInclinAng = c.targetFInclinAng
    /\ targetPosition = c.targetPosition
    /\ maxUpAng = c.maxUpAng /\ minUpAng = c.minUpAng
    /\ before = c

\* the fields of the next state are those of the camera c
Becomes(c) ==
    /\ position' = c.position /\ pedestal' = c.pedestal /\ horizontal' = c.horizontal
    /\ look' = c.look /\ right' = c.right /\ up' = c.up /\ t' = c.t /\ s' = c.s
    /\ xAng' = c.xAng /\ yAng' = c.yAng
    /\ targetXang' = c.targetXang /\ targetYang' = c.targetYang
    /\ rInclinAng' = c.rInclinAng /\ fInclinAng' = c.fInclinAng
    /\ targetRInclinAng' = c.targetRInclinAng /\ targetFInclinAng' = c.targetFInclinAng
    /\ targetPosition' = c.targetPosition
    /\ maxUpAng' = c.maxUpAng /\ minUpAng' = c.minUpAng

\* the number of public calls a run makes after construction
MaxSteps == 3

\* constructor(position, pedestal, look, xAng = 0, maxAbsUpAng = Math.PI/3)
defaultMaxAbsUpAng == RDiv(Pi, 3)

\* Arguments, in the host's convention.  The cameras built: the one of the spec's
\* end-to-end case; one with a pedestal of length 2, a look off the axes and an
\* initial horizontal angle; one whose look is raised 1.29 rad, above maxUpAng.
CameraA == <<Vector3(0, 0, 0), Vector3(0, 0, One), Vector3(0, One, 0), 0,
             defaultMaxAbsUpAng>>
CameraB == <<Vector3(One, 0, 0), Vector3(0, 0, 2 * One), Vector3(6000, 8000, 0), 5000,
             defaultMaxAbsUpAng>>
CameraC == <<Vector3(0, One, -One), Vector3(0, 0, One), Vector3(0, 2800, 9600), 0,
             defaultMaxAbsUpAng>>
CtorArgs == { CameraA, CameraB, CameraC }
\* looks: raised 0.93 rad, raised 1.29 rad (above maxUpAng), along the pedestal
LookArgs == { Vector3(3600, 4800, 8000), Vector3(0, 2800, 9600), Vector3(0, 0, One) }
\* smoothed looks: raised 0.93 rad, and raised 1.35 rad (above maxUpAng)
SmoothLookArgs == { Vector3(3600, 4800, 8000), Vector3(0, 900, 4000) }
TargetArgs == { Vector3(One, One, 0) }
LeftArgs == { HalfPi, -Pi }
UpArgs == { 40000, -3000 }
InclineArgs == { 2000 }
PositionArgs == { Vector3(One, 0, 0), Vector3(-5000, One, 5000) }
MoveArgs == { 5000 }
SmoothnessArgs == { <<0, 0>>, <<5000, One>> }

op == history[Len(history)][1]
arg == history[Len(history)][2]
steps == Len(history) - 1
idle == [pc |-> "idle"]

Init ==
    \E a \in CtorArgs :
        /\ Starts(constructor(a[1], a[2], a[3], a[4], a[5]))
        /\ history = << <<"constructor", a>> >>
        /\ d2 = idle
        /\ cast = idle

Call(name, a, c) ==
    /\ steps < MaxSteps
    /\ Becomes(c)
    /\ history' = Append(history, <<name, a>>)
    /\ before' = Cam
    /\ UNCHANGED <<d2, cast>>

SetSmoothness == \E a \in SmoothnessArgs :
    Call("setSmoothness", a, setSmoothness(Cam, a[1], a[2]))
SetLook == \E a \in LookArgs : Call("setLook", a, setLook(Cam, a))
SetLookSmooth == \E a \in SmoothLookArgs : Call("setLookSmooth", a, setLookSmooth(Cam, a))
\* lookAt a fixed point, or the point the camera is at
LookAt == \E a \in TargetArgs \cup {changeHand(position)} :
    Call("lookAt", a, lookAt(Cam, a))
LookAtSmooth == \E a \in TargetArgs : Call("lookAtSmooth", a, lookAtSmooth(Cam, a))
RotateLeft == \E a \in LeftArgs : Call("rotateLeft", a, rotateLeft(Cam, a))
RotateUp == \E a \in UpArgs : Call("rotateUp", a, rotateUp(Cam, a))
InclineRight == \E a \in InclineArgs : Call("inclineRight", a, inclineRight(Cam, a))
InclineForward == \E a \in InclineArgs : Call("inclineForward", a, inclineForward(Cam, a))
SetPosition == \E a \in {Vector3(One, 0, 0)} : Call("setPosition", a, setPosition(Cam, a))
SetPositionSmooth == \E a \in PositionArgs :
    Call("setPositionSmooth", a, setPositionSmooth(Cam, a))
MoveRight == \E a \in MoveArgs : Call("moveRight", a, moveRight(Cam, a))
MoveForward == \E a \in MoveArgs : Call("moveForward", a, moveForward(Cam, a))
MoveUp == \E a \in MoveArgs : Call("moveUp", a, moveUp(Cam, a))

\* update() with a zero right vector and an inclination still to apply rotates
\* about a zero axis: the program divides 0 by 0 and the vectors fill with NaN,
\* which the integers here cannot hold.  Those calls are left out.
inclinationPending(c) ==
    \/ lerp(c.rInclinAng, c.targetRInclinAng, c.t) # c.rInclinAng
    \/ lerp(c.fInclinAng, c.targetFInclinAng, c.t) # c.fInclinAng
Update ==
    /\ ~(vecIsZero(right) /\ inclinationPending(Cam))
    /\ Call("update", <<>>, update(Cam))

Next ==
    \/ SetSmoothness
    \/ SetLook
    \/ SetLookSmooth
    \/ LookAt
    \/ LookAtSmooth
    \/ RotateLeft
    \/ RotateUp
    \/ InclineRight
    \/ InclineForward
    \/ SetPosition
    \/ SetPositionSmooth
    \/ MoveRight
    \/ MoveForward
    \/ MoveUp
    \/ Update

Spec == Init /\ [][Next]_vars

(***************************************************************************)
(* Direction2 on its own: a unit vector u and a frame of a unit vertical   *)
(* and a unit horizontal perpendicular to it are drawn, fromVector3 takes  *)
(* u to a Direction2 and toVector3 takes that back to a vector.  The       *)
(* camera stands by as constructed.                                        *)
(***************************************************************************)
Frames == { <<UP, RIGHT>>, <<RIGHT, Vector3(0, One, 0)>>, <<Vector3(0, -One, 0), UP>>,
            <<Vector3(6000, 8000, 0), Vector3(-8000, 6000, 0)>> }
\* level, raised and lowered directions, on and off the axes
UnitVectors ==
    { Vector3(One, 0, 0), Vector3(0, One, 0), Vector3(0, 0, One),
      Vector3(-One, 0, 0), Vector3(0, -One, 0), Vector3(0, 0, -One),
      Vector3(6000, 8000, 0), Vector3(0, 6000, 8000), Vector3(8000, 0, 6000),
      Vector3(-6000, 0, 8000), Vector3(0, 8000, -6000), Vector3(3600, 4800, 8000),
      Vector3(4800, -3600, 8000), Vector3(-4800, 6400, 6000), Vector3(6400, 4800, -6000),
      Vector3(2800, 0, 9600), Vector3(0, 9600, 2800) }
collinear(u, v) == vecIsZero(cross(u, v))

InitDirection ==
    /\ Starts(constructor(CameraA[1], CameraA[2], CameraA[3], CameraA[4], CameraA[5]))
    /\ history = << <<"constructor", CameraA>> >>
    /\ \E u \in UnitVectors, f \in Frames :
          /\ ~collinear(u, f[1])
          /\ d2 = [pc |-> "vector", u |-> u, vertical |-> f[1], horizontal |-> f[2]]
    /\ cast = idle

FromVector3 ==
    /\ d2.pc = "vector"
    /\ d2' = [pc |-> "direction", u |-> d2.u, vertical |-> d2.vertical,
              horizontal |-> d2.horizontal,
              direction |-> fromVector3(d2.u, d2.vertical, d2.horizontal)]
    /\ UNCHANGED <<fields, history, before, cast>>

ToVector3 ==
    /\ d2.pc = "direction"
    /\ d2' = [pc |-> "back", u |-> d2.u, vertical |-> d2.vertical,
              horizontal |-> d2.horizontal, direction |-> d2.direction,
              result |-> toVector3(d2.direction, d2.vertical, d2.horizontal)]
    /\ UNCHANGED <<fields, history, before, cast>>

NextDirection ==
    \/ FromVector3
    \/ ToVector3

SpecDirection == InitDirection /\ [][NextDirection]_vars

(***************************************************************************)
(* rayIntersectsRect on its own: a ray and a rectangle are drawn and the   *)
(* ray is cast at the rectangle.  The camera stands by as constructed.     *)
(***************************************************************************)
Half == One \div 2
\* origins: above the plane z = 0 on and off the axis, over the rim of the unit
\* square (inside it, on the 0.1 margin, past it), and below the plane
Origins ==
    { Vector3(0, 0, 5 * One), Vector3(0, Half, 5 * One), Vector3(Half, Half, 5 * One),
      Vector3(One + Half \div 10, 0, 5 * One), Vector3(One + One \div 10, 0, 5 * One),
      Vector3(One + One \div 5, 0, 5 * One), Vector3(0, 0, -5 * One),
      Vector3(5 * One + Half, Half, 2 * One) }
\* directions: down, up, level, and down at a slant
Directions ==
    { Vector3(0, 0, -One), Vector3(0, 0, One), Vector3(One, 0, 0),
      Vector3(0, 6000, -8000), Vector3(2 * One, 0, -2 * One) }
\* rectangles [A, B, C] with the right angle at B: the square of side 2 about
\* the origin of the plane z = 0; three rectangles lying in 5 <= x <= 6 (level,
\* tilted, upright); the square with its corners on the axes of the plane z = 0;
\* a rectangle turned within the plane x + z = 0
Rects ==
    { <<Vector3(-One, -One, 0), Vector3(One, -One, 0), Vector3(One, One, 0)>>,
      <<Vector3(5 * One, 0, 0), Vector3(6 * One, 0, 0), Vector3(6 * One, One, 0)>>,
      <<Vector3(5 * One, -One, -One), Vector3(6 * One, -One, -One),
        Vector3(6 * One, One, One)>>,
      <<Vector3(5 * One + Half, 0, 0), Vector3(5 * One + Half, One, 0),
        Vector3(5 * One + Half, One, One)>>,
      <<Vector3(-One, 0, 0), Vector3(0, -One, 0), Vector3(One, 0, 0)>>,
      <<Vector3(-One, 0, One), Vector3(0, -One, 0), Vector3(One, 0, -One)>> }

InitRay ==
    /\ Starts(constructor(CameraA[1], CameraA[2], CameraA[3], CameraA[4], CameraA[5]))
    /\ history = << <<"constructor", CameraA>> >>
    /\ d2 = idle
    /\ \E P \in Origins, v \in Directions, rect \in Rects :
          cast = [pc |-> "ray", ray |-> [P |-> P, v |-> v], rect |-> rect]

RayIntersectsRect ==
    /\ cast.pc = "ray"
    /\ cast' = [pc |-> "done", ray |-> cast.ray, rect |-> cast.rect,
                result |-> rayIntersectsRect(cast.ray, cast.rect)]
    /\ UNCHANGED <<fields, history, before, d2>>

NextRay == RayIntersectsRect

SpecRay == InitRay /\ [][NextRay]_vars

(***************************************************************************)
(* Properties.                                                             *)
(***************************************************************************)
\* what "within tolerance" allows, in units of 1e-4
Tol == 50

isUnit(v) == Abs(dot(v, v) - One) <= Tol
isOrthogonal(a, b) == Abs(dot(a, b)) <= Tol
near(a, b) == \A i \in 1..3 : Abs(a[i] - b[i]) <= Tol
inUpRange(c, a) == c.minUpAng <= a /\ a <= c.maxUpAng
called(n, name, a) == Len(history) >= n /\ history[n][1] = name /\ history[n][2] = a

\* C1: after any public mutator, right, up and look are unit vectors and
\* pairwise orthogonal, also when look is set parallel to pedestal or lookAt
\* targets the camera's own position.
C1_FrameOrthonormal ==
    /\ isUnit(right) /\ isUnit(up) /\ isUnit(look)
    /\ isOrthogonal(right, up) /\ isOrthogonal(right, look) /\ isOrthogonal(up, look)

\* C2: when the elevation is in [minUpAng, maxUpAng], rotateUp and update()
\* leave it there: rotateUp does not touch it, and update() moves it to the
\* interpolated angle, or exactly to the bound that angle would cross.
C2_ElevationClamped ==
    (op \in {"rotateUp", "update"} /\ inUpRange(before, before.yAng)) =>
        /\ inUpRange(Cam, yAng)
        /\ op = "rotateUp" => yAng = before.yAng
        /\ op = "update" =>
              LET asked == before.yAng + Mul(before.targetYang - before.yAng, before.t)
              IN yAng = (IF asked > maxUpAng THEN maxUpAng
                         ELSE IF asked < minUpAng THEN minUpAng ELSE asked)
\* an update() that stopped the elevation at maxUpAng, short of the target
C2_Witness ==
    /\ op = "update"
    /\ inUpRange(before, before.yAng) /\ before.yAng < before.maxUpAng
    /\ before.targetYang > before.maxUpAng
    /\ yAng = maxUpAng

\* C3: after every operation that assigns the vertical-angle target
\* (construction, rotateUp, setLook, lookAt, setLookSmooth, lookAtSmooth) the
\* target lies in [minUpAng, maxUpAng].
C3_TargetClampedAtAssignment ==
    op \in {"constructor", "rotateUp", "setLook", "lookAt", "setLookSmooth", "lookAtSmooth"}
        => inUpRange(Cam, targetYang)

\* C4: a smoothed setter changes target values only: position, pedestal, look,
\* right, up, horizontal and the four current angles are as the call found them.
current(c) == <<c.position, c.pedestal, c.look, c.right, c.up, c.horizontal,
                c.xAng, c.yAng, c.rInclinAng, c.fInclinAng>>
SmoothedSetters == {"setLookSmooth", "lookAtSmooth", "rotateLeft", "rotateUp",
                    "inclineRight", "inclineForward", "setPositionSmooth"}
C4_SmoothedSettersDefer == op \in SmoothedSetters => current(Cam) = current(before)
\* three smoothed setters in a row, no update(): targets moved, the rest did not
C4_Witness ==
    /\ steps = 3
    /\ \A n \in 2..4 : history[n][1] \in SmoothedSetters
    /\ targetPosition # position /\ targetXang # xAng /\ targetYang # yAng
    /\ current(Cam) = current(before)

\* C5: update() never increases the distance of a tracked angle or of the
\* position from its target, and decreases each distance above epsilon.
angleErrors(c) == <<Abs(c.targetXang - c.xAng), Abs(c.targetYang - c.yAng),
                    Abs(c.targetRInclinAng - c.rInclinAng),
                    Abs(c.targetFInclinAng - c.fInclinAng)>>
positionErrors(c) == [i \in 1..3 |-> Abs(c.targetPosition[i] - c.position[i])]
C5_UpdateConverges ==
    op = "update" =>
        /\ \A i \in 1..4 :
              /\ angleErrors(Cam)[i] <= angleErrors(before)[i]
              /\ angleErrors(before)[i] > epsilon =>
                    angleErrors(Cam)[i] < angleErrors(before)[i]
        /\ \A i \in 1..3 : positionErrors(Cam)[i] <= positionErrors(before)[i]

\* C6 as stated: with the coefficients setSmoothness(0, 0) sets, one update()
\* after a target change leaves every tracked angle and every position
\* component within 1e-3 of its target.
snap == One - One \div 1000
milli == One \div 1000
TargetChanges == {"rotateLeft", "rotateUp", "inclineRight", "inclineForward",
                  "setPositionSmooth"}
afterSnapUpdate ==
    /\ op = "update" /\ steps >= 2 /\ history[Len(history) - 1][1] \in TargetChanges
    /\ before.t = snap /\ before.s = snap
C7_PositiveTurnsRight ==
    ( /\ steps = 3
      /\ called(1, "constructor", CameraA)
      /\ called(2, "setSmoothness", <<0, 0>>)
      /\ called(3, "rotateLeft", HalfPi)
      /\ op = "update" )
    => dot(look, before.right) > 0

\* C8: fromVector3 then toVector3, in the same frame, give back the unit
\* vector they started from, whatever its elevation.
C8_RoundTrip == d2.pc = "back" => near(d2.result, d2.u)

\* C9: a new target supersedes the one before: after setPositionSmooth(p) the
\* position target is p (in the camera's hand) whatever it was, and after
\* setLookSmooth / lookAtSmooth the angle targets are those the call sets from
\* a camera that had no target pending; update() moves each position component
\* toward the target, never past it.
settled(c) == [c EXCEPT !.targetXang = c.xAng, !.targetYang = c.yAng,
                        !.targetPosition = c.position]
between(a, x, b) == (a <= x /\ x <= b) \/ (b <= x /\ x <= a)
C9_TargetSuperseded ==
    /\ op = "setPositionSmooth" =>
          /\ targetPosition = Vector3(arg[1], -arg[2], arg[3])
          /\ position = before.position
    /\ op = "setLookSmooth" =>
          /\ targetXang = setLookSmooth(settled(before), arg).targetXang
          /\ targetYang = setLookSmooth(settled(before), arg).targetYang
    /\ op = "lookAtSmooth" =>
          /\ targetXang = lookAtSmooth(settled(before), arg).targetXang
          /\ targetYang = lookAtSmooth(settled(before), arg).targetYang
    /\ op = "update" =>
          \A i \in 1..3 : between(before.position[i], position[i], before.targetPosition[i])
\* setPositionSmooth(p1), update(), setPositionSmooth(p2): position is where the
\* first request took it, the target is the second one
C9_Witness ==
    /\ steps = 3
    /\ history[2][1] = "setPositionSmooth" /\ history[3][1] = "update"
    /\ history[4][1] = "setPositionSmooth" /\ history[4][2] # history[2][2]
    /\ position = changeHand(history[2][2])
    /\ targetPosition = changeHand(history[4][2])

\* C10: values in the host's convention come back through the getters: the
\* position given to the constructor or setPosition, the unit look given to
\* setLook, the constructor's horizontal angle; construct3Position / Forward /
\* Right are the stored vectors with the second component negated and
\* construct3Up is the stored up vector.
C10_HandRoundTrip ==
    /\ op = "constructor" => /\ construct3Position(Cam) = arg[1]
                             /\ xAngle(Cam) = arg[4]
    /\ op = "setPosition" => construct3Position(Cam) = arg
    /\ (op = "setLook" /\ norm(arg) = One) => construct3Forward(Cam) = arg
    /\ construct3Position(Cam) = Vector3(position[1], -position[2], position[3])
    /\ construct3Forward(Cam) = Vector3(look[1], -look[2], look[3])
    /\ construct3Right(Cam) = Vector3(right[1], -right[2], right[3])
    /\ construct3Up(Cam) = up
\* setLook with a unit vector off the mirror plane: stored flipped, read back as given
C10_Witness ==
    /\ op = "setLook" /\ norm(arg) = One /\ arg[2] # 0
    /\ look # arg
    /\ construct3Forward(Cam) = arg

\* C11: rayIntersectsRect(ray, rect) returns the point P + t*v where the ray
\* meets the plane through the three corners exactly when the ray is not
\* parallel to the plane, t >= 0 and each coordinate of the point lies within
\* the least and the greatest of the corners' coordinates widened by 0.1;
\* otherwise it returns false.  The ray from (0,0,5) along (0,0,-1) hits the
\* rectangle of corners (-1,-1,0), (1,-1,0), (1,1,0) at (0,0,0) and misses any
\* rectangle lying in 5 <= x <= 6.
normalOf(rect) == cross(difference(rect[1], rect[2]), difference(rect[1], rect[3]))
denOf(ray, rect) == dot(normalOf(rect), ray.v)
paramOf(ray, rect) ==
    Quot(dot(normalOf(rect), difference(ray.P, rect[1])), denOf(ray, rect))
pointOf(ray, rect) == increasedBy(ray.P, times(ray.v, paramOf(ray, rect)))
forward(ray, rect) == denOf(ray, rect) # 0 /\ paramOf(ray, rect) >= 0
onPlane(Q, rect) == Abs(dot(normalOf(rect), difference(rect[1], Q))) <= Tol
tenth == One \div 10
inExtent(Q, rect) ==
    \A axis \in 1..3 :
        /\ \E i \in 1..3 : Q[axis] >= rect[i][axis] - tenth
        /\ \E i \in 1..3 : Q[axis] <= rect[i][axis] + tenth
exampleRay == [P |-> Vector3(0, 0, 5 * One), v |-> Vector3(0, 0, -One)]
exampleRect == <<Vector3(-One, -One, 0), Vector3(One, -One, 0), Vector3(One, One, 0)>>
liesInFiveToSix(rect) == \A i \in 1..3 : 5 * One <= rect[i][1] /\ rect[i][1] <= 6 * One
C11_RayIntersectsRect ==
    cast.pc = "done" =>
        /\ (forward(cast.ray, cast.rect) /\ inExtent(pointOf(cast.ray, cast.rect), cast.rect))
              => /\ cast.result = pointOf(cast.ray, cast.rect)
                 /\ onPlane(cast.result, cast.rect)
        /\ ~(forward(cast.ray, cast.rect) /\ inExtent(pointOf(cast.ray, cast.rect), cast.rect))
              => cast.result = false
        /\ (cast.ray = exampleRay /\ cast.rect = exampleRect)
              => cast.result = Vector3(0, 0, 0)
        /\ (cast.ray = exampleRay /\ liesInFiveToSix(cast.rect)) => cast.result = false
\* the example ray cast at the example rectangle: the hit at the origin
C11_Witness ==
    /\ cast.pc = "done" /\ cast.ray = exampleRay /\ cast.rect = exampleRect
    /\ cast.result = Vector3(0, 0, 0)

\* C12: rayIntersectsRect errs on the side of a hit only: for a rectangle of
\* corners A, B, C and A + C - B, however it is turned within its plane, a ray
\* whose forward intersection with the plane lies inside the rectangle is
\* reported as a hit.
insideRect(Q, rect) ==
    LET u == difference(rect[2], rect[1])
        w == difference(rect[2], rect[3])
        q == difference(rect[2], Q)
    IN /\ 0 <= dot(q, u) /\ dot(q, u) <= dot(u, u)
       /\ 0 <= dot(q, w) /\ dot(q, w) <= dot(w, w)
C12_NoFalseNegative ==
    ( /\ cast.pc = "done"
      /\ forward(cast.ray, cast.rect)
      /\ insideRect(pointOf(cast.ray, cast.rect), cast.rect) )
    => cast.result # false

\* C13: in every reachable state the tracked vertical angle is pi/2 minus the
\* angle between look and pedestal, within tolerance.
elevationOf(c) == HalfPi - angleBetween(normalize(c.look), normalize(c.pedestal))
C13_ElevationTracksLook == Abs(yAng - elevationOf(Cam)) <= Tol

\* C14 as stated: setLook and lookAt recompute horizontal for the new look, so
\* a look set to another bearing about the pedestal gives another horizontal;
\* every other operation leaves horizontal unchanged.
levelled(c) == difference(times(c.pedestal, dot(c.look, c.pedestal)), c.look)
bearingChanged == ~near(cross(levelled(before), levelled(Cam)), Vector3(0, 0, 0))
C14_RecomputedOnSetLook ==
    /\ op \notin {"constructor", "setLook", "lookAt"} => horizontal = before.horizontal
    /\ (op \in {"setLook", "lookAt"} /\ bearingChanged) => horizontal # before.horizontal
\* C14 amended: horizontal is computed at construction and no operation,
\* setLook and lookAt included, changes it: every call leaves horizontal as
\* it found it.
C14_HorizontalFixed == horizontal = before.horizontal
\* a setLook that turned the look to another bearing and left horizontal alone
C14_Witness ==
    /\ op = "setLook" /\ bearingChanged
    /\ look # before.look
    /\ horizontal = before.horizontal

\* C15: in every reachable state horizontal is a unit vector perpendicular to
\* the pedestal, also after inclineRight / inclineForward followed by update()
\* and after construction with a non-zero initial horizontal angle.
C15_HorizontalPerpendicular == isUnit(horizontal) /\ isOrthogonal(horizontal, pedestal)

\* C16: a translation by moveRight, moveForward or moveUp persists: when no
\* setPositionSmooth was issued since the last setPosition or construction,
\* update() leaves position where it found it.
noTargetSince(n) ==
    \/ n = 0
    \/ \E k \in 1..n :
          /\ history[k][1] \in {"constructor", "setPosition"}
          /\ \A m \in (k + 1)..n : history[m][1] # "setPositionSmooth"
C16_MovePersists ==
    (op = "update" /\ noTargetSince(Len(history))) => position = before.position

====
